---- MODULE Spec2Model ----
(***************************************************************************)
(* Model of src/src/App.tsx, the "IT Asset Number Generator".              *)
(*                                                                         *)
(* JavaScript strings are modelled as sequences of one-character strings,  *)
(* so that trim, toUpperCase, toLowerCase, replace, slice, padStart and    *)
(* string concatenation are computed character by character.               *)
(* A Map<string, number> is modelled as the sequence of its [key, value]   *)
(* entries in insertion order, an array as a sequence.                     *)
(***************************************************************************)
EXTENDS Integers, Sequences, FiniteSets, TLC

VARIABLES
    assetTypes,             \* useState<AssetType[]>(loadAssetTypes)
    lastGeneratedCounters,  \* useState<Map<string, number>>(loadCounters)
    selectedType,           \* useState<string>: the id of the selected type
    generatedNumber,        \* useState<string>: the number on display
    localStorage,           \* the two localStorage items the component owns
    now,                    \* what new Date() returns: [year, month]
    issued,                 \* history: one record per successful generate
    last,                   \* history: the last handler run and its outcome
    found,                  \* history: the two items the last load found
    budget                  \* exploration: handler runs left in this session

vars == <<assetTypes, lastGeneratedCounters, selectedType, generatedNumber,
          localStorage, now, issued, last, found, budget>>

---------------------------------------------------------------------------
(* Bounds of the model.                                                    *)

\* clicks on "Generate Asset Number" explored in a session
MaxGen == 3

\* submissions of the "Add Type" form explored in a session
MaxAdds == 2

\* month changes explored in a session
MaxTicks == 1

\* page reloads explored in a session
MaxReloads == 1

---------------------------------------------------------------------------
(* JavaScript string primitives.                                           *)

LowerLetters == <<"a","b","c","d","e","f","g","h","i","j","k","l","m",
                  "n","o","p","q","r","s","t","u","v","w","x","y","z">>

UpperLetters == <<"A","B","C","D","E","F","G","H","I","J","K","L","M",
                  "N","O","P","Q","R","S","T","U","V","W","X","Y","Z">>

Digits == <<"0","1","2","3","4","5","6","7","8","9">>

\* the upper-case letter of each lower-case letter
UpperOf ==
    [c \in {LowerLetters[i] : i \in 1..Len(LowerLetters)} |->
        UpperLetters[CHOOSE i \in 1..Len(LowerLetters) : LowerLetters[i] = c]]

\* the lower-case letter of each upper-case letter
LowerOf ==
    [c \in {UpperLetters[i] : i \in 1..Len(UpperLetters)} |->
        LowerLetters[CHOOSE i \in 1..Len(UpperLetters) : UpperLetters[i] = c]]

UpperChar(c) == IF c \in DOMAIN UpperOf THEN UpperOf[c] ELSE c

LowerChar(c) == IF c \in DOMAIN LowerOf THEN LowerOf[c] ELSE c

\* String.prototype.toUpperCase
toUpperCase(s) == [i \in 1..Len(s) |-> UpperChar(s[i])]

\* String.prototype.toLowerCase
toLowerCase(s) == [i \in 1..Len(s) |-> LowerChar(s[i])]

\* the characters the regular expression class \s matches
IsSpace(c) == c = " "

RECURSIVE trimStart(_)
trimStart(s) ==
    IF s # <<>> /\ IsSpace(Head(s)) THEN trimStart(Tail(s)) ELSE s

RECURSIVE trimEnd(_)
trimEnd(s) ==
    IF s # <<>> /\ IsSpace(s[Len(s)]) THEN trimEnd(SubSeq(s, 1, Len(s) - 1)) ELSE s

\* String.prototype.trim
trim(s) == trimEnd(trimStart(s))

\* s.replace(/\s+/g, '-'): every maximal run of whitespace becomes one hyphen
RECURSIVE replaceSpaces(_)
replaceSpaces(s) ==
    IF s = <<>> THEN <<>>
    ELSE IF IsSpace(Head(s))
         THEN <<"-">> \o replaceSpaces(trimStart(s))
         ELSE <<Head(s)>> \o replaceSpaces(Tail(s))

\* Number.prototype.toString for a non-negative integer
RECURSIVE toString(_)
toString(n) ==
    IF n < 10 THEN <<Digits[n + 1]>>
    ELSE toString(n \div 10) \o <<Digits[(n % 10) + 1]>>

\* String.prototype.padStart(targetLength, padChar)
RECURSIVE padStart(_, _, _)
padStart(s, targetLength, c) ==
    IF Len(s) >= targetLength THEN s ELSE padStart(<<c>> \o s, targetLength, c)

\* String.prototype.slice(-n): the last n characters (the whole string if shorter)
sliceLast(s, n) ==
    IF Len(s) <= n THEN s ELSE SubSeq(s, Len(s) - n + 1, Len(s))

\* String.prototype.substring(0, n)
substring0(s, n) ==
    IF Len(s) <= n THEN s ELSE SubSeq(s, 1, n)

---------------------------------------------------------------------------
(* Icon mapping.                                                           *)

iconIds == {"laptop", "desktop", "keyboard", "mouse", "printer", "storage",
            "server", "default"}

iconMap ==
    [k \in iconIds |->
        CASE k = "laptop"   -> "Laptop"
          [] k = "desktop"  -> "Monitor"
          [] k = "keyboard" -> "Keyboard"
          [] k = "mouse"    -> "Mouse"
          [] k = "printer"  -> "Printer"
          [] k = "storage"  -> "HardDrive"
          [] k = "server"   -> "Server"
          [] k = "default"  -> "HardDrive"]

getIconComponent(iconId) ==
    IF iconId \in iconIds THEN iconMap[iconId] ELSE iconMap["default"]

---------------------------------------------------------------------------
(* The default asset types.                                                *)

\* variant: the entries do not carry the isDefault flag set
defaultTypeUnflagged(id, name, prefix, icon, iconId, rangeStart, rangeEnd) ==
    [id |-> id, name |-> name, prefix |-> prefix, icon |-> icon, iconId |-> iconId,
     rangeStart |-> rangeStart, rangeEnd |-> rangeEnd, isDefault |-> FALSE]

\* one entry of the defaultAssetTypes array literal
defaultType(id, name, prefix, icon, iconId, rangeStart, rangeEnd) ==
    [id |-> id, name |-> name, prefix |-> prefix, icon |-> icon, iconId |-> iconId,
     rangeStart |-> rangeStart, rangeEnd |-> rangeEnd, isDefault |-> TRUE]

defaultAssetTypes ==
    << defaultType(<<"l","a","p","t","o","p">>, <<"L","a","p","t","o","p">>,
                   <<"L","T">>, "Laptop", "laptop", 1, 1000),
       defaultType(<<"d","e","s","k","t","o","p">>,
                   <<"D","e","s","k","t","o","p"," ","P","C">>,
                   <<"P","C">>, "Monitor", "desktop", 1001, 2000),
       defaultType(<<"k","e","y","b","o","a","r","d">>,
                   <<"K","e","y","b","o","a","r","d">>,
                   <<"K","B">>, "Keyboard", "keyboard", 2001, 3000),
       defaultType(<<"m","o","u","s","e">>, <<"M","o","u","s","e">>,
                   <<"M","S">>, "Mouse", "mouse", 3001, 4000),
       defaultType(<<"p","r","i","n","t","e","r">>, <<"P","r","i","n","t","e","r">>,
                   <<"P","R">>, "Printer", "printer", 4001, 5000),
       defaultType(<<"s","t","o","r","a","g","e">>,
                   <<"S","t","o","r","a","g","e"," ","D","e","v","i","c","e">>,
                   <<"S","D">>, "HardDrive", "storage", 5001, 6000) >>

---------------------------------------------------------------------------
(* Map<string, number> as the sequence of its entries in insertion order.  *)

\* new Map()
emptyMap == <<>>

\* Map.prototype.has
mapHas(m, k) == \E i \in 1..Len(m) : m[i][1] = k

\* Map.prototype.get, for a key the map has
mapGet(m, k) == m[CHOOSE i \in 1..Len(m) : m[i][1] = k][2]

\* Map.prototype.set: an existing key keeps its place, a new key goes last
mapSet(m, k, v) ==
    IF mapHas(m, k)
    THEN [i \in 1..Len(m) |-> IF m[i][1] = k THEN <<k, v>> ELSE m[i]]
    ELSE Append(m, <<k, v>>)

\* new Map(iterable of [key, value] pairs)
RECURSIVE newMapFrom(_, _)
newMapFrom(m, pairs) ==
    IF pairs = <<>> THEN m
    ELSE newMapFrom(mapSet(m, Head(pairs)[1], Head(pairs)[2]), Tail(pairs))

newMap(pairs) == newMapFrom(emptyMap, pairs)

\* Array.from(map.entries())
mapEntries(m) == [i \in 1..Len(m) |-> <<m[i][1], m[i][2]>>]

---------------------------------------------------------------------------
(* localStorage: what getItem returns for a key never set, and the JSON    *)
(* texts written by the two save effects (modelled by the value the text   *)
(* denotes). The storage also records whether its quota is used up, in     *)
(* which case setItem throws.                                              *)

NoItem == [kind |-> "null"]

\* the item holding the JSON text of the array v
JsonItem(v) == [kind |-> "json", value |-> v]

\* the item holding the empty string
EmptyItem == [kind |-> "empty"]

\* an item holding a text that is not JSON, such as a truncated text
GarbageItem == [kind |-> "garbage"]

\* the item holding the JSON text {}: it parses, to a value that is no array
ObjectItem == [kind |-> "object"]

\* if (storedValue)
isTruthy(item) == item.kind \notin {"null", "empty"}

\* JSON.parse(storedValue) throws a SyntaxError
parseThrows(item) == item.kind = "garbage"

\* parsedTypes.map(...) and new Map(parsedArray) throw a TypeError
notIterable(item) == item.kind = "object"

\* the try block runs to its return statement
loads(item) == isTruthy(item) /\ ~parseThrows(item) /\ ~notIterable(item)

\* variant: the isDefault flag is lost on the way to the storage
stringifyTypesFlagLost(types) ==
    [i \in 1..Len(types) |->
        [id |-> types[i].id, name |-> types[i].name, prefix |-> types[i].prefix,
         iconId |-> types[i].iconId, rangeStart |-> types[i].rangeStart,
         rangeEnd |-> types[i].rangeEnd, isDefault |-> FALSE]]

\* assetTypes.map(({ icon, ...rest }) => rest), then JSON.stringify
stringifyTypes(types) ==
    [i \in 1..Len(types) |->
        [id |-> types[i].id, name |-> types[i].name, prefix |-> types[i].prefix,
         iconId |-> types[i].iconId, rangeStart |-> types[i].rangeStart,
         rangeEnd |-> types[i].rangeEnd, isDefault |-> types[i].isDefault]]

\* JSON.parse, then the icon component restored from iconId
parseTypes(item) ==
    [i \in 1..Len(item) |->
        [id |-> item[i].id, name |-> item[i].name, prefix |-> item[i].prefix,
         icon |-> getIconComponent(item[i].iconId),
         iconId |-> item[i].iconId, rangeStart |-> item[i].rangeStart,
         rangeEnd |-> item[i].rangeEnd, isDefault |-> item[i].isDefault]]

\* variant: nothing is returned in place of an item that cannot be read
loadAssetTypesNoFallback(storage) ==
    IF loads(storage.types)
    THEN parseTypes(storage.types.value)
    ELSE <<>>

loadAssetTypes(storage) ==
    IF loads(storage.types)
    THEN parseTypes(storage.types.value)
    ELSE defaultAssetTypes

loadCounters(storage) ==
    IF loads(storage.counters)
    THEN newMap(storage.counters.value)
    ELSE emptyMap

\* localStorage.setItem(key, text): throws when the quota is used up
setItem(storage, key, item) ==
    IF storage.full THEN storage ELSE [storage EXCEPT ![key] = item]

\* useEffect(..., [assetTypes])
saveAssetTypes(storage, types) ==
    setItem(storage, "types", JsonItem(stringifyTypes(types)))

\* variant: only the entry set last is written, a patch of the stored value
saveCountersLastEntry(storage, counters) ==
    setItem(storage, "counters",
            JsonItem(IF counters = <<>> THEN <<>> ELSE <<counters[Len(counters)]>>))

\* useEffect(..., [lastGeneratedCounters])
saveCounters(storage, counters) ==
    setItem(storage, "counters", JsonItem(mapEntries(counters)))

\* the alert of the catch block of the first save effect
typesWarning ==
    "Warning: Could not save asset type changes. Local storage might be full or disabled."

\* the alert of the catch block of the second save effect
countersWarning ==
    "Warning: Could not save numbering progress. Local storage might be full or disabled."

\* the alerts a run of the save effects raises; no alert is <<>>
warningOf(storage, warning) == IF storage.full THEN <<warning>> ELSE <<>>

---------------------------------------------------------------------------
(* The number generator.                                                   *)

\* the null that generateNextAssetNumber returns when the range is full
Null == [isNull |-> TRUE]

\* now.getFullYear().toString().slice(-2)
yearOf(date) == sliceLast(toString(date.year), 2)

\* variant: the month is not padded
monthOfUnpadded(date) == toString(date.month)

\* (now.getMonth() + 1).toString().padStart(2, '0')
monthOf(date) == padStart(toString(date.month), 2, "0")

keyPrefixOf(assetType, date) == assetType.prefix \o yearOf(date) \o monthOf(date)

\* variant: a missing key counts as "last issued = 0"
lastUsedNumberDefaultZero(assetType, counters, date) ==
    IF mapHas(counters, assetType.prefix \o sliceLast(toString(date.year), 2)
                            \o padStart(toString(date.month), 2, "0"))
    THEN mapGet(counters, assetType.prefix \o sliceLast(toString(date.year), 2)
                              \o padStart(toString(date.month), 2, "0"))
    ELSE 0

\* variant: the stored counter is never consulted
lastUsedNumberIgnoringStore(assetType, counters, date) == assetType.rangeStart - 1

lastUsedNumber(assetType, counters, date) ==
    IF mapHas(counters, keyPrefixOf(assetType, date))
    THEN mapGet(counters, keyPrefixOf(assetType, date))
    ELSE assetType.rangeStart - 1

\* variant: the comparison lets one number past the end of the range
rangeExhaustedOffByOne(nextNumber, assetType) == nextNumber > assetType.rangeEnd + 1

rangeExhausted(nextNumber, assetType) == nextNumber > assetType.rangeEnd

formattedNum(nextNumber) == padStart(toString(nextNumber), 4, "0")

generateNextAssetNumber(assetType, counters, date) ==
    LET nextNumber == lastUsedNumber(assetType, counters, date) + 1
    IN  IF rangeExhausted(nextNumber, assetType)
        THEN Null
        ELSE [isNull |-> FALSE,
              assetNumber |-> keyPrefixOf(assetType, date) \o formattedNum(nextNumber),
              nextCounterValue |-> nextNumber]

---------------------------------------------------------------------------
(* Array helpers.                                                          *)

\* assetTypes.find(t => t.id === id): the index of the first match, 0 for undefined
findById(types, id) ==
    IF \E i \in 1..Len(types) : types[i].id = id
    THEN CHOOSE i \in 1..Len(types) :
             /\ types[i].id = id
             /\ \A j \in 1..(i - 1) : types[j].id # id
    ELSE 0

\* prev.filter(type => type.id !== id)
RECURSIVE filterOutId(_, _)
filterOutId(types, id) ==
    IF types = <<>> THEN <<>>
    ELSE IF Head(types).id # id
         THEN <<Head(types)>> \o filterOutId(Tail(types), id)
         ELSE filterOutId(Tail(types), id)

\* assetTypes.reduce((max, type) => Math.max(max, type.rangeEnd), 0)
RECURSIVE maxRangeEnd(_)
maxRangeEnd(types) ==
    IF types = <<>> THEN 0
    ELSE LET rest == maxRangeEnd(Tail(types))
         IN  IF Head(types).rangeEnd > rest THEN Head(types).rangeEnd ELSE rest

---------------------------------------------------------------------------
(* What the user can type into the "Add Type" form.                        *)

\* the Asset Name field
NameInputs ==
    { <<"D","e","s","k","t","o","p">>,
      <<" ","A"," "," ","B">>,
      <<"a","-","b">>,
      <<"l","a","p","t","o","p">>,
      <<" ">> }

\* the Prefix field; the input element has maxLength 3
PrefixInputs ==
    { <<"s","v">>,
      <<" ","a","b">>,
      <<"l","t">>,
      <<"x">>,
      <<" "," ">> }

\* onChange of the Prefix field stores e.target.value.toUpperCase()
prefixField(typed) == toUpperCase(typed)

---------------------------------------------------------------------------
(* The sessions explored: what localStorage holds and what the clock reads *)
(* when the component is constructed, and how many generate clicks, form   *)
(* submissions and month changes are explored from there.                  *)

emptyStorage == [types |-> NoItem, counters |-> NoItem, full |-> FALSE]

June2024 == [year |-> 2024, month |-> 6]

November2111 == [year |-> 2111, month |-> 11]

customType(id, name, prefix, rangeStart) ==
    [id |-> id, name |-> name, prefix |-> prefix, iconId |-> "default",
     rangeStart |-> rangeStart, rangeEnd |-> rangeStart + 999, isDefault |-> FALSE]

\* The very first run.
FirstRun ==
    [storage |-> emptyStorage, clock |-> June2024,
     budget |-> [gen |-> MaxGen, add |-> 0, tick |-> 0, fill |-> 0, reload |-> 0]]

\* The first run again, the exploration spent on the months going by.
FirstRunMonths ==
    [storage |-> emptyStorage, clock |-> June2024,
     budget |-> [gen |-> MaxGen - 1, add |-> 0, tick |-> MaxTicks, fill |-> 0, reload |-> 0]]

\* The first run again, the exploration spent on the registry.
FirstRunRegistry ==
    [storage |-> emptyStorage, clock |-> June2024,
     budget |-> [gen |-> 0, add |-> MaxAdds, tick |-> 0, fill |-> 0, reload |-> 0]]

\* After sessions that generated 998 laptop numbers in June 2024.
LaptopsNearlyFull ==
    [storage |-> [types |-> JsonItem(stringifyTypes(defaultAssetTypes)),
                  counters |-> JsonItem(<< <<(<<"L","T","2","4","0","6">>), 998>> >>),
                  full |-> FALSE],
     clock |-> June2024,
     budget |-> [gen |-> MaxGen, add |-> 0, tick |-> 0, fill |-> 0, reload |-> 0]]

\* After a session of June 2024 that added a type with prefix AB, generated
\* its first number, removed it and added the type Rack with prefix RK.
PrefixOrphaned ==
    [storage |-> [types |-> JsonItem(stringifyTypes(defaultAssetTypes) \o
                      << customType(<<"r","a","c","k">>, <<"R","a","c","k">>,
                                    <<"R","K">>, 6001) >>),
                  counters |-> JsonItem(<< <<(<<"A","B","2","4","0","6">>), 6001>> >>),
                  full |-> FALSE],
     clock |-> June2024,
     budget |-> [gen |-> MaxGen - 2, add |-> 1, tick |-> 0, fill |-> 0, reload |-> 0]]

\* After sessions that added eleven types, the first with prefix AB1 and the
\* eleventh with prefix AB, and removed the nine in between.
ElevenTypesAdded ==
    [storage |-> [types |-> JsonItem(stringifyTypes(defaultAssetTypes) \o
                      << customType(<<"r","a","c","k">>, <<"R","a","c","k">>,
                                    <<"A","B","1">>, 6001),
                         customType(<<"s","w","i","t","c","h">>, <<"S","w","i","t","c","h">>,
                                    <<"A","B">>, 16001) >>),
                  counters |-> NoItem,
                  full |-> FALSE],
     clock |-> November2111,
     budget |-> [gen |-> MaxGen - 1, add |-> 0, tick |-> 0, fill |-> 0, reload |-> 0]]

\* The first run again, the quota of the storage running out during it.
FirstRunQuota ==
    [storage |-> emptyStorage, clock |-> June2024,
     budget |-> [gen |-> MaxGen - 1, add |-> 0, tick |-> 0, fill |-> 1, reload |-> 0]]

\* The same, the exploration spent on the registry.
FirstRunQuotaRegistry ==
    [storage |-> emptyStorage, clock |-> June2024,
     budget |-> [gen |-> 0, add |-> MaxAdds - 1, tick |-> 0, fill |-> 1, reload |-> 0]]

\* The same, the page reloaded after the quota ran out.
FirstRunQuotaReload ==
    [storage |-> emptyStorage, clock |-> June2024,
     budget |-> [gen |-> MaxGen - 2, add |-> 0, tick |-> 0, fill |-> 1,
                 reload |-> MaxReloads]]

\* The first run again, the page reloaded during it.
FirstRunReload ==
    [storage |-> emptyStorage, clock |-> June2024,
     budget |-> [gen |-> 1, add |-> 1, tick |-> 0, fill |-> 0, reload |-> 1]]

\* The registry item is not JSON; the counters are those of seven laptops.
RegistryGarbled ==
    [storage |-> [types |-> GarbageItem,
                  counters |-> JsonItem(<< <<(<<"L","T","2","4","0","6">>), 7>> >>),
                  full |-> FALSE],
     clock |-> June2024,
     budget |-> [gen |-> 1, add |-> 1, tick |-> 0, fill |-> 0, reload |-> 0]]

\* The counters item is JSON but no array; the registry holds the type Rack.
CountersGarbled ==
    [storage |-> [types |-> JsonItem(stringifyTypes(defaultAssetTypes) \o
                      << customType(<<"r","a","c","k">>, <<"R","a","c","k">>,
                                    <<"R","K">>, 6001) >>),
                  counters |-> ObjectItem,
                  full |-> FALSE],
     clock |-> June2024,
     budget |-> [gen |-> 1, add |-> 0, tick |-> 0, fill |-> 0, reload |-> 0]]

\* The registry item is JSON but no array, the counters item is not JSON.
BothGarbled ==
    [storage |-> [types |-> ObjectItem, counters |-> GarbageItem, full |-> FALSE],
     clock |-> June2024,
     budget |-> [gen |-> 1, add |-> 0, tick |-> 0, fill |-> 0, reload |-> 0]]

\* Both items are the empty string.
BothEmpty ==
    [storage |-> [types |-> EmptyItem, counters |-> EmptyItem, full |-> FALSE],
     clock |-> June2024,
     budget |-> [gen |-> 1, add |-> 0, tick |-> 0, fill |-> 0, reload |-> 0]]

Sessions ==
    {FirstRun, FirstRunMonths, FirstRunRegistry, LaptopsNearlyFull, PrefixOrphaned,
     ElevenTypesAdded, FirstRunQuota, FirstRunQuotaRegistry, FirstRunQuotaReload,
     FirstRunReload, RegistryGarbled, CountersGarbled, BothGarbled, BothEmpty}

---------------------------------------------------------------------------
(* Construction: the useState initializers, then the two save effects of   *)
(* the first render.                                                       *)

\* loadedTypes[0]?.id || ''
firstId(types) == IF Len(types) > 0 THEN types[1].id ELSE <<>>

\* the storage after the two save effects that follow a render
afterEffects(storage, types, counters) ==
    saveCounters(saveAssetTypes(storage, types), counters)

\* the kinds of the two items the useState initializers read
foundIn(storage) == [types |-> storage.types.kind, counters |-> storage.counters.kind]

InitFrom(sessions) ==
    \E s \in sessions :
        /\ now = s.clock
        /\ assetTypes = loadAssetTypes(s.storage)
        /\ lastGeneratedCounters = loadCounters(s.storage)
        /\ selectedType = firstId(loadAssetTypes(s.storage))
        /\ generatedNumber = <<>>
        /\ localStorage = afterEffects(s.storage, loadAssetTypes(s.storage),
                                       loadCounters(s.storage))
        /\ issued = <<>>
        /\ last = [op |-> "load", outcome |-> "ok", arg |-> <<>>, sel |-> <<>>,
                   warnings |-> warningOf(s.storage, typesWarning)
                                    \o warningOf(s.storage, countersWarning)]
        /\ found = foundIn(s.storage)
        /\ budget = s.budget

Init == InitFrom(Sessions)

---------------------------------------------------------------------------
(* The handlers.                                                           *)

\* onClick={() => setSelectedType(type.id)} of a rendered type
SelectType(id) ==
    /\ \E i \in 1..Len(assetTypes) : assetTypes[i].id = id
    /\ selectedType' = id
    /\ last' = [op |-> "select", outcome |-> "ok", arg |-> id, sel |-> <<>>,
                 warnings |-> <<>>]
    /\ UNCHANGED <<assetTypes, lastGeneratedCounters, generatedNumber,
                   localStorage, now, issued, found, budget>>

\* variant: the new map is not seeded with the previous one
countersAfterGenerateFresh(counters, asset, result) ==
    mapSet(emptyMap,
           substring0(result.assetNumber, Len(asset.prefix) + 4),
           result.nextCounterValue)

\* setLastGeneratedCounters(prevMap => new Map(prevMap).set(keyPrefix, nextCounterValue))
countersAfterGenerate(counters, asset, result) ==
    mapSet(newMap(mapEntries(counters)),
           substring0(result.assetNumber, Len(asset.prefix) + 4),
           result.nextCounterValue)

\* variant: the catch block puts the previous counters back
countersAfterEffectRolledBack(storage, before, after) ==
    IF storage.full THEN before ELSE after

\* the counters once the save effect has run: its catch block only alerts, so
\* they are the counters the setter has set, whatever setItem did
countersAfterEffect(storage, before, after) == after

handleGenerate ==
    LET i == findById(assetTypes, selectedType) IN
    /\ selectedType # <<>>    \* the button is disabled without a selection
    /\ budget.gen > 0
    /\ budget' = [budget EXCEPT !.gen = @ - 1]
    /\ IF i = 0
       THEN /\ last' = [op |-> "generate", outcome |-> "noAsset", arg |-> <<>>,
                         sel |-> <<>>, warnings |-> <<>>]
            /\ UNCHANGED <<assetTypes, lastGeneratedCounters, selectedType,
                           generatedNumber, localStorage, now, issued, found>>
       ELSE LET asset == assetTypes[i]
                result == generateNextAssetNumber(asset, lastGeneratedCounters, now)
            IN  IF ~result.isNull
                THEN /\ lastGeneratedCounters' =
                            countersAfterEffect(localStorage, lastGeneratedCounters,
                                countersAfterGenerate(lastGeneratedCounters, asset, result))
                     /\ generatedNumber' = result.assetNumber
                     /\ localStorage' = saveCounters(localStorage, lastGeneratedCounters')
                     /\ issued' = Append(issued,
                            [assetNumber |-> result.assetNumber,
                             seq |-> result.nextCounterValue,
                             id |-> asset.id,
                             prefix |-> asset.prefix,
                             rangeStart |-> asset.rangeStart,
                             rangeEnd |-> asset.rangeEnd,
                             date |-> now,
                             before |-> lastGeneratedCounters])
                     /\ last' = [op |-> "generate", outcome |-> "ok", arg |-> <<>>,
                                  sel |-> <<>>,
                                  warnings |-> warningOf(localStorage, countersWarning)]
                     /\ UNCHANGED <<assetTypes, selectedType, now, found>>
                ELSE /\ generatedNumber' = <<>>
                     /\ last' = [op |-> "generate", outcome |-> "exhausted", arg |-> <<>>,
                                  sel |-> <<>>, warnings |-> <<>>]
                     /\ UNCHANGED <<assetTypes, lastGeneratedCounters, selectedType,
                                    localStorage, now, issued, found>>

\* variant: the stored prefix is lower-cased for the comparison
prefixExistsLowerCased(types, trimmedPrefix) ==
    \E i \in 1..Len(types) : toLowerCase(types[i].prefix) = trimmedPrefix

prefixExists(types, trimmedPrefix) ==
    \E i \in 1..Len(types) : toUpperCase(types[i].prefix) = trimmedPrefix

\* variant: the names are compared as typed
nameExistsExact(types, trimmedName) ==
    \E i \in 1..Len(types) : types[i].name = trimmedName

nameExists(types, trimmedName) ==
    \E i \in 1..Len(types) : toLowerCase(types[i].name) = toLowerCase(trimmedName)

\* variant: the new range starts at the highest number in use
newTypeToAddFromMax(types, trimmedName, trimmedPrefix) ==
    [id |-> replaceSpaces(toLowerCase(trimmedName)),
     name |-> trimmedName,
     prefix |-> trimmedPrefix,
     icon |-> getIconComponent("default"),
     iconId |-> "default",
     rangeStart |-> maxRangeEnd(types),
     rangeEnd |-> maxRangeEnd(types) + 999,
     isDefault |-> FALSE]

newTypeToAdd(types, trimmedName, trimmedPrefix) ==
    [id |-> replaceSpaces(toLowerCase(trimmedName)),
     name |-> trimmedName,
     prefix |-> trimmedPrefix,
     icon |-> getIconComponent("default"),
     iconId |-> "default",
     rangeStart |-> maxRangeEnd(types) + 1,
     rangeEnd |-> (maxRangeEnd(types) + 1) + 999,
     isDefault |-> FALSE]

\* variant: the name is looked up before the prefix
addOutcomeNameFirst(types, trimmedName, trimmedPrefix) ==
    IF /\ trimmedName # <<>>
       /\ trimmedPrefix # <<>>
       /\ Len(trimmedPrefix) >= 2
       /\ Len(trimmedPrefix) <= 3
    THEN IF nameExists(types, trimmedName) THEN "Name already exists!"
         ELSE IF prefixExists(types, trimmedPrefix) THEN "Prefix already exists!"
         ELSE "added"
    ELSE IF trimmedName = <<>> THEN "Asset Name cannot be empty."
         ELSE IF trimmedPrefix = <<>> THEN "Prefix cannot be empty."
         ELSE "Prefix must be 2 or 3 characters long."

\* the outcome of the validation in handleAddAssetType: "added", or the alert
addOutcome(types, trimmedName, trimmedPrefix) ==
    IF /\ trimmedName # <<>>
       /\ trimmedPrefix # <<>>
       /\ Len(trimmedPrefix) >= 2
       /\ Len(trimmedPrefix) <= 3
    THEN IF prefixExists(types, trimmedPrefix) THEN "Prefix already exists!"
         ELSE IF nameExists(types, trimmedName) THEN "Name already exists!"
         ELSE "added"
    ELSE IF trimmedName = <<>> THEN "Asset Name cannot be empty."
         ELSE IF trimmedPrefix = <<>> THEN "Prefix cannot be empty."
         ELSE "Prefix must be 2 or 3 characters long."

handleAddAssetType(name, prefix) ==
    LET trimmedName == trim(name)
        trimmedPrefix == toUpperCase(trim(prefix))
        outcome == addOutcome(assetTypes, trimmedName, trimmedPrefix)
    IN  /\ budget.add > 0
        /\ budget' = [budget EXCEPT !.add = @ - 1]
        /\ IF outcome = "added"
           THEN /\ assetTypes' = Append(assetTypes,
                                        newTypeToAdd(assetTypes, trimmedName, trimmedPrefix))
                /\ localStorage' = saveAssetTypes(localStorage, assetTypes')
                /\ last' = [op |-> "add", outcome |-> outcome, arg |-> <<>>, sel |-> <<>>,
                             warnings |-> warningOf(localStorage, typesWarning)]
                /\ UNCHANGED <<lastGeneratedCounters, selectedType, generatedNumber,
                               now, issued, found>>
           ELSE /\ last' = [op |-> "add", outcome |-> outcome, arg |-> <<>>, sel |-> <<>>,
                             warnings |-> <<>>]
                /\ UNCHANGED <<assetTypes, lastGeneratedCounters, selectedType,
                               generatedNumber, localStorage, now, issued, found>>

\* variant: the guard on default types is missing
targetIsDefaultNever(types, idToRemove) == FALSE

\* typeToRemove?.isDefault
targetIsDefault(types, idToRemove) ==
    /\ findById(types, idToRemove) # 0
    /\ types[findById(types, idToRemove)].isDefault

\* assetTypes.length <= 1
isLastAssetType(types) == Len(types) <= 1

\* the outcome of the two guards of handleRemoveAssetType: "removed", or the alert
removeOutcome(types, idToRemove) ==
    IF targetIsDefault(types, idToRemove) THEN "Default asset types cannot be removed."
    ELSE IF isLastAssetType(types) THEN "Cannot remove the last asset type!"
    ELSE "removed"

\* variant: the selection is left alone
selectionAfterRemoveKept(types, selected, idToRemove) == selected

\* the selection after a removal: reset when the removed type was selected
selectionAfterRemove(types, selected, idToRemove) ==
    IF selected = idToRemove
    THEN firstId(filterOutId(types, idToRemove))
    ELSE selected

\* the trash button is rendered for the types with !type.isDefault, and passes type.id
handleRemoveAssetType(idToRemove) ==
    LET outcome == removeOutcome(assetTypes, idToRemove) IN
    /\ \E i \in 1..Len(assetTypes) :
           ~assetTypes[i].isDefault /\ assetTypes[i].id = idToRemove
    /\ IF outcome = "removed"
       THEN /\ assetTypes' = filterOutId(assetTypes, idToRemove)
            /\ selectedType' = selectionAfterRemove(assetTypes, selectedType, idToRemove)
            /\ localStorage' = saveAssetTypes(localStorage, assetTypes')
            /\ last' = [op |-> "remove", outcome |-> outcome, arg |-> idToRemove,
                         sel |-> selectedType,
                         warnings |-> warningOf(localStorage, typesWarning)]
            /\ UNCHANGED <<lastGeneratedCounters, generatedNumber, now, issued, found,
                           budget>>
       ELSE /\ last' = [op |-> "remove", outcome |-> outcome, arg |-> idToRemove,
                         sel |-> selectedType, warnings |-> <<>>]
            /\ UNCHANGED <<assetTypes, lastGeneratedCounters, selectedType,
                           generatedNumber, localStorage, now, issued, found, budget>>

\* the calendar month ends: the next new Date() reads the following month
nextMonth(date) ==
    IF date.month = 12
    THEN [year |-> date.year + 1, month |-> 1]
    ELSE [year |-> date.year, month |-> date.month + 1]

Tick ==
    /\ budget.tick > 0
    /\ budget' = [budget EXCEPT !.tick = @ - 1]
    /\ now' = nextMonth(now)
    /\ last' = [op |-> "tick", outcome |-> "ok", arg |-> <<>>, sel |-> <<>>,
                 warnings |-> <<>>]
    /\ UNCHANGED <<assetTypes, lastGeneratedCounters, selectedType, generatedNumber,
                   localStorage, issued, found>>

\* other data of the origin uses up the quota: from now on setItem throws
QuotaExceeded ==
    /\ budget.fill > 0
    /\ ~localStorage.full
    /\ budget' = [budget EXCEPT !.fill = @ - 1]
    /\ localStorage' = [localStorage EXCEPT !.full = TRUE]
    /\ last' = [op |-> "quota", outcome |-> "ok", arg |-> <<>>, sel |-> <<>>,
                 warnings |-> <<>>]
    /\ UNCHANGED <<assetTypes, lastGeneratedCounters, selectedType, generatedNumber,
                   now, issued, found>>

\* the page is reloaded: the component is constructed again from localStorage
Reload ==
    /\ budget.reload > 0
    /\ budget' = [budget EXCEPT !.reload = @ - 1]
    /\ assetTypes' = loadAssetTypes(localStorage)
    /\ lastGeneratedCounters' = loadCounters(localStorage)
    /\ selectedType' = firstId(loadAssetTypes(localStorage))
    /\ generatedNumber' = <<>>
    /\ localStorage' = afterEffects(localStorage, loadAssetTypes(localStorage),
                                    loadCounters(localStorage))
    /\ issued' = <<>>
    /\ last' = [op |-> "reload", outcome |-> "ok", arg |-> <<>>, sel |-> <<>>,
                 warnings |-> warningOf(localStorage, typesWarning)
                                  \o warningOf(localStorage, countersWarning)]
    /\ found' = foundIn(localStorage)
    /\ UNCHANGED now

\* the ids a rendered type can have
AllIds ==
    { replaceSpaces(toLowerCase(trim(n))) : n \in NameInputs }
        \cup { defaultAssetTypes[i].id : i \in 1..Len(defaultAssetTypes) }
        \cup { <<"r","a","c","k">>, <<"s","w","i","t","c","h">> }

Next ==
    \/ \E id \in AllIds : SelectType(id)
    \/ handleGenerate
    \/ \E name \in NameInputs, prefix \in PrefixInputs :
           handleAddAssetType(name, prefixField(prefix))
    \/ \E id \in AllIds : handleRemoveAssetType(id)
    \/ Tick
    \/ QuotaExceeded
    \/ Reload

Spec == Init /\ [][Next]_vars

\* The registry handlers alone, from the first run.
InitRegistry == InitFrom({FirstRunRegistry})

NextRegistry ==
    \/ \E id \in AllIds : SelectType(id)
    \/ \E name \in NameInputs, prefix \in PrefixInputs :
           handleAddAssetType(name, prefixField(prefix))
    \/ \E id \in AllIds : handleRemoveAssetType(id)

SpecRegistry == InitRegistry /\ [][NextRegistry]_vars

---------------------------------------------------------------------------
(* Vocabulary of the properties, computed independently of the handlers.   *)

TwoDigits(n) == <<Digits[((n \div 10) % 10) + 1], Digits[(n % 10) + 1]>>

\* n in decimal, left-padded with zeros to four digits, never truncated
FourDigits(n) ==
    IF n < 10000
    THEN <<Digits[(n \div 1000) + 1], Digits[((n \div 100) % 10) + 1],
           Digits[((n \div 10) % 10) + 1], Digits[(n % 10) + 1]>>
    ELSE toString(n)

\* the period key prefix+YY+MM of a generation
PeriodKey(prefix, date) == prefix \o TwoDigits(date.year % 100) \o TwoDigits(date.month)

IssuedKey(i) == PeriodKey(issued[i].prefix, issued[i].date)

CounterKeys(counters) == { counters[i][1] : i \in 1..Len(counters) }

CounterValue(counters, key) ==
    counters[CHOOSE i \in 1..Len(counters) : counters[i][1] = key][2]

\* the counter store right after the i-th successful generate of the session
CountersAfter(i) ==
    IF i < Len(issued) THEN issued[i + 1].before ELSE lastGeneratedCounters

\* the selected asset type, when the selection names a type of the registry
SelectedIndex ==
    IF \E i \in 1..Len(assetTypes) : assetTypes[i].id = selectedType
    THEN CHOOSE i \in 1..Len(assetTypes) :
             /\ assetTypes[i].id = selectedType
             /\ \A j \in 1..(i - 1) : assetTypes[j].id # selectedType
    ELSE 0

---------------------------------------------------------------------------
(* C1: successive successful generations under one period key issue        *)
(* sequence values that go up by exactly 1, and each of them commits one   *)
(* counter-store update: afterwards the counter of its key is the value    *)
(* just issued and every other entry is as before.                         *)
C1_ConsecutiveNoGaps ==
    /\ \A i, j \in 1..Len(issued) :
           ( /\ i < j
             /\ IssuedKey(i) = IssuedKey(j)
             /\ \A k \in (i + 1)..(j - 1) : IssuedKey(k) # IssuedKey(i) )
           => issued[j].seq = issued[i].seq + 1
    /\ \A i \in 1..Len(issued) :
           /\ CounterKeys(CountersAfter(i)) =
                  CounterKeys(issued[i].before) \cup {IssuedKey(i)}
           /\ CounterValue(CountersAfter(i), IssuedKey(i)) = issued[i].seq
           /\ \A k \in CounterKeys(issued[i].before) \ {IssuedKey(i)} :
                  CounterValue(CountersAfter(i), k) = CounterValue(issued[i].before, k)

\* three generations in a row for one type in one period
C1_Witness ==
    /\ Len(issued) >= 3
    /\ IssuedKey(1) = IssuedKey(2)
    /\ IssuedKey(2) = IssuedKey(3)
    /\ issued[1].id = issued[3].id
    /\ issued[3].seq = issued[1].seq + 2

(* C2: a generate for a type whose counter of the current period key       *)
(* equals rangeEnd issues nothing and leaves every entry of the counter    *)
(* store, in memory and persisted, as it was.                              *)
C2_RangeFull ==
    /\ SelectedIndex # 0
    /\ PeriodKey(assetTypes[SelectedIndex].prefix, now) \in CounterKeys(lastGeneratedCounters)
    /\ CounterValue(lastGeneratedCounters, PeriodKey(assetTypes[SelectedIndex].prefix, now))
           = assetTypes[SelectedIndex].rangeEnd

C2_ExhaustedLeavesStore ==
    [][ (C2_RangeFull /\ last'.op = "generate")
            => /\ last'.outcome = "exhausted"
               /\ issued' = issued
               /\ generatedNumber' = <<>>
               /\ lastGeneratedCounters' = lastGeneratedCounters
               /\ localStorage'.counters = localStorage.counters ]_vars

\* the generate was refused on a full range, after numbers had been issued
C2_Witness ==
    /\ last.op = "generate"
    /\ last.outcome = "exhausted"
    /\ C2_RangeFull
    /\ Len(issued) > 0
    /\ generatedNumber = <<>>

(* C3: every sequence number issued for a type lies in the type's closed   *)
(* interval [rangeStart, rangeEnd], also when the type's prefix was used   *)
(* before by a type since removed.                                         *)
C3_IssuedWithinRange ==
    \A i \in 1..Len(issued) :
        /\ issued[i].rangeStart <= issued[i].seq
        /\ issued[i].seq <= issued[i].rangeEnd

(* C4: within one session no asset number is issued twice.                 *)
C4_NoNumberTwice ==
    \A i, j \in 1..Len(issued) :
        i # j => issued[i].assetNumber # issued[j].assetNumber

(* C5: no step of a session lowers the value stored under a counter-store  *)
(* key or drops the key, the removal of the type owning the key's prefix   *)
(* included; a reload of the page, which starts the next session from the  *)
(* persisted store, does not lower or drop an entry of the persisted store *)
(* either.                                                                 *)
C5_CountersMonotonic ==
    [][ /\ last'.op # "reload"
            => \A k \in CounterKeys(lastGeneratedCounters) :
                   /\ k \in CounterKeys(lastGeneratedCounters')
                   /\ CounterValue(lastGeneratedCounters', k)
                          >= CounterValue(lastGeneratedCounters, k)
        /\ localStorage.counters.kind = "json"
            => /\ localStorage'.counters.kind = "json"
               /\ \A k \in CounterKeys(localStorage.counters.value) :
                      /\ k \in CounterKeys(localStorage'.counters.value)
                      /\ CounterValue(localStorage'.counters.value, k)
                             >= CounterValue(localStorage.counters.value, k) ]_vars

\* a type that was issued a number in this session has just been removed, and
\* the counter of its key still holds the number
C5_Witness ==
    /\ last.op = "remove"
    /\ last.outcome = "removed"
    /\ \E i \in 1..Len(issued) :
           /\ issued[i].id = last.arg
           /\ \A t \in 1..Len(assetTypes) : assetTypes[t].prefix # issued[i].prefix
           /\ IssuedKey(i) \in CounterKeys(lastGeneratedCounters)
           /\ CounterValue(lastGeneratedCounters, IssuedKey(i)) = issued[i].seq

(* C6: a generation whose period key is absent from the counter store      *)
(* issues rangeStart, whatever the store holds under other keys, and the   *)
(* asset number ends with rangeStart zero-padded to four digits.           *)
C6_FirstOfPeriod ==
    \A i \in 1..Len(issued) :
        IssuedKey(i) \notin CounterKeys(issued[i].before)
            => /\ issued[i].seq = issued[i].rangeStart
               /\ SubSeq(issued[i].assetNumber, Len(issued[i].prefix) + 5,
                         Len(issued[i].assetNumber)) = FourDigits(issued[i].rangeStart)

\* the first generation of a type in a new month, the store holding the
\* counter of the month before
C6_Witness ==
    \E i, j \in 1..Len(issued) :
        /\ i < j
        /\ issued[i].id = issued[j].id
        /\ issued[i].date # issued[j].date
        /\ IssuedKey(i) \in CounterKeys(issued[j].before)
        /\ IssuedKey(j) \notin CounterKeys(issued[j].before)
        /\ issued[j].seq = issued[j].rangeStart
        /\ issued[j].rangeStart > 1

(* C7: every asset number issued is prefix, two-digit year, two-digit      *)
(* month and the sequence value padded to four digits (all its digits when *)
(* it has more); LT with an empty store in June 2024 gives LT24060001 and  *)
(* the store {LT2406: 1}, and then LT24060002.                             *)
C7_NumberFormat ==
    /\ \A i \in 1..Len(issued) :
           issued[i].assetNumber =
               issued[i].prefix \o TwoDigits(issued[i].date.year % 100)
                   \o TwoDigits(issued[i].date.month) \o FourDigits(issued[i].seq)
    /\ \A i \in 1..Len(issued) :
           ( /\ issued[i].prefix = <<"L","T">>
             /\ issued[i].date = [year |-> 2024, month |-> 6]
             /\ issued[i].before = <<>> )
           => /\ issued[i].assetNumber = <<"L","T","2","4","0","6","0","0","0","1">>
              /\ CountersAfter(i) = << <<(<<"L","T","2","4","0","6">>), 1>> >>
              /\ ( /\ i < Len(issued)
                   /\ issued[i + 1].prefix = <<"L","T">>
                   /\ issued[i + 1].date = issued[i].date )
                 => issued[i + 1].assetNumber =
                        <<"L","T","2","4","0","6","0","0","0","2">>

\* the two calls of the example have been made
C7_Witness ==
    /\ Len(issued) >= 2
    /\ issued[1].before = <<>>
    /\ issued[1].assetNumber = <<"L","T","2","4","0","6","0","0","0","1">>
    /\ issued[2].assetNumber = <<"L","T","2","4","0","6","0","0","0","2">>

(* C8: a remove-type action whose target id is the id of a protected type  *)
(* leaves the registry as it was, every protected type still in it.        *)
C8_ProtectedNeverRemoved ==
    [][ ( /\ last'.op = "remove"
          /\ \E i \in 1..Len(assetTypes) :
                 assetTypes[i].isDefault /\ assetTypes[i].id = last'.arg )
            => /\ assetTypes' = assetTypes
               /\ \A i \in 1..Len(assetTypes) :
                      assetTypes[i].isDefault
                          => \E j \in 1..Len(assetTypes') : assetTypes'[j] = assetTypes[i] ]_vars

\* a remove aimed at the id of a default type has been refused
C8_Witness ==
    /\ last.op = "remove"
    /\ last.outcome = "Default asset types cannot be removed."
    /\ \E i \in 1..Len(assetTypes) : assetTypes[i].isDefault /\ assetTypes[i].id = last.arg
    /\ Len(assetTypes) > Len(defaultAssetTypes)

C10_UniquePrefixAndName ==
    \A i, j \in 1..Len(assetTypes) :
        i # j => /\ assetTypes[i].prefix # assetTypes[j].prefix
                 /\ toLowerCase(assetTypes[i].name) # toLowerCase(assetTypes[j].name)

\* with a type added, a second submission was refused for its name
C10_Witness ==
    /\ Len(assetTypes) > Len(defaultAssetTypes)
    /\ last.op = "add"
    /\ last.outcome = "Name already exists!"

(* C11: no two asset types of the registry share an id, the id of an added *)
(* type being its name lower-cased with every run of whitespace turned     *)
(* into a hyphen; so a selection, a generate or a remove, which look a     *)
(* type up by id, act on the one entry designated.                         *)
C11_UniqueIds ==
    \A i, j \in 1..Len(assetTypes) :
        i # j => assetTypes[i].id # assetTypes[j].id

\* the text without the whitespace before its first and after its last
\* character that is no whitespace
Core(text) ==
    LET solid == { i \in 1..Len(text) : text[i] # " " }
    IN  IF solid = {} THEN <<>>
        ELSE SubSeq(text, CHOOSE i \in solid : \A j \in solid : i <= j,
                          CHOOSE i \in solid : \A j \in solid : i >= j)

\* the prefix a submission carries: the core of the field, in upper case
CarriedPrefix(prefix) == [i \in 1..Len(Core(prefix)) |-> UpperChar(Core(prefix)[i])]

\* the five rules in the order of the claim, each with its message
AddRules(types, name, prefix) ==
    << [broken |-> Core(name) = <<>>,
        message |-> "Asset Name cannot be empty."],
       [broken |-> Core(prefix) = <<>>,
        message |-> "Prefix cannot be empty."],
       [broken |-> Len(Core(prefix)) \notin {2, 3},
        message |-> "Prefix must be 2 or 3 characters long."],
       [broken |-> \E t \in 1..Len(types) : types[t].prefix = CarriedPrefix(prefix),
        message |-> "Prefix already exists!"],
       [broken |-> \E t \in 1..Len(types) :
                       toLowerCase(types[t].name) = toLowerCase(Core(name)),
        message |-> "Name already exists!"] >>

\* the message of the first rule broken, "added" when none is
FirstFailure(types, name, prefix) ==
    LET rules == AddRules(types, name, prefix)
        broken == { r \in 1..Len(rules) : rules[r].broken }
    IN  IF broken = {} THEN "added"
        ELSE rules[CHOOSE r \in broken : \A q \in broken : r <= q].message

(* C12: a submission of the Add Type form is answered by the message of    *)
(* the first rule it breaks, in the order name empty, prefix empty, prefix *)
(* length not 2 or 3, prefix present, name present; the five messages      *)
(* differ from one another, and a refused submission leaves the registry,  *)
(* in memory and persisted, as it was.                                     *)
C12_FirstFailureWins ==
    [][ \A name \in NameInputs, prefix \in PrefixInputs :
            handleAddAssetType(name, prefixField(prefix))
                => /\ last'.outcome = FirstFailure(assetTypes, name, prefix)
                   /\ Cardinality({ AddRules(assetTypes, name, prefix)[r].message :
                                        r \in 1..5 }) = 5
                   /\ last'.outcome # "added"
                          => /\ assetTypes' = assetTypes
                             /\ localStorage' = localStorage ]_vars

\* with a type added, a submission was refused for its prefix
C12_Witness ==
    /\ Len(assetTypes) > Len(defaultAssetTypes)
    /\ last.op = "add"
    /\ last.outcome = "Prefix already exists!"

\* the two texts are equal up to the case of their letters
SameUpToCase(a, b) ==
    /\ Len(a) = Len(b)
    /\ \A i \in 1..Len(a) : LowerChar(a[i]) = LowerChar(b[i])

\* the submission passes the three rules on the fields alone
WellFormed(name, prefix) ==
    /\ Core(name) # <<>>
    /\ Len(Core(prefix)) \in {2, 3}

(* C13: a well-formed submission whose prefix equals an existing prefix up *)
(* to case is refused for its prefix, and the refusals for the prefix are  *)
(* exactly the submissions whose upper-cased prefix is, character for      *)
(* character, an existing prefix; a submission whose name equals an        *)
(* existing name up to case (and whose prefix is new) is refused for its   *)
(* name.                                                                   *)
C13_CaseOfTheChecks ==
    [][ \A name \in NameInputs, prefix \in PrefixInputs :
            ( /\ handleAddAssetType(name, prefixField(prefix))
              /\ WellFormed(name, prefix) )
                => LET sameCase  == \E t \in 1..Len(assetTypes) :
                                        SameUpToCase(assetTypes[t].prefix, Core(prefix))
                       exact     == \E t \in 1..Len(assetTypes) :
                                        assetTypes[t].prefix = CarriedPrefix(prefix)
                       sameName  == \E t \in 1..Len(assetTypes) :
                                        SameUpToCase(assetTypes[t].name, Core(name))
                   IN  /\ sameCase => last'.outcome = "Prefix already exists!"
                       /\ (last'.outcome = "Prefix already exists!") <=> exact
                       /\ (sameName /\ ~sameCase)
                              => last'.outcome = "Name already exists!"
                       /\ last'.outcome # "added" => assetTypes' = assetTypes ]_vars

\* a submission was refused for its name although no name of the registry
\* is, character for character, a name the form can submit: the name check
\* is not an exact match
C13_Witness ==
    /\ last.op = "add"
    /\ last.outcome = "Name already exists!"
    /\ \A n \in NameInputs : \A t \in 1..Len(assetTypes) : assetTypes[t].name # Core(n)
    /\ \E n \in NameInputs : \E t \in 1..Len(assetTypes) :
           SameUpToCase(assetTypes[t].name, Core(n))

\* no number lies in the ranges of both asset types: one of the two closed
\* intervals ends before the other starts
Apart(a, b) == a.rangeEnd < b.rangeStart \/ b.rangeEnd < a.rangeStart

RangesDisjoint(types) ==
    \A i, j \in 1..Len(types) :
        i # j => /\ types[i].rangeStart <= types[i].rangeEnd
                 /\ Apart(types[i], types[j])

\* the highest rangeEnd of the registry, 0 for the empty registry
HighestRangeEnd(types) ==
    IF types = <<>> THEN 0
    ELSE CHOOSE m \in { types[i].rangeEnd : i \in 1..Len(types) } :
             \A i \in 1..Len(types) : types[i].rangeEnd <= m

(* C14: a successful add-type appends one entry, not protected, whose      *)
(* range is [M+1, M+1000] for M the highest rangeEnd of the registry       *)
(* before it, a range that meets the range of no entry; and the ranges of  *)
(* the registry are pairwise disjoint in every state.                      *)
C14_NewRangeDisjoint ==
    /\ []RangesDisjoint(assetTypes)
    /\ [][ (last'.op = "add" /\ last'.outcome = "added")
               => /\ Len(assetTypes') = Len(assetTypes) + 1
                  /\ SubSeq(assetTypes', 1, Len(assetTypes)) = assetTypes
                  /\ ~assetTypes'[Len(assetTypes')].isDefault
                  /\ assetTypes'[Len(assetTypes')].rangeStart
                         = HighestRangeEnd(assetTypes) + 1
                  /\ assetTypes'[Len(assetTypes')].rangeEnd
                         = HighestRangeEnd(assetTypes) + 1000
                  /\ \A t \in 1..Len(assetTypes) :
                         Apart(assetTypes'[Len(assetTypes')], assetTypes[t]) ]_vars

\* a second type has been added, with the range after that of the first
C14_Witness ==
    /\ last.op = "add"
    /\ last.outcome = "added"
    /\ Len(assetTypes) = Len(defaultAssetTypes) + 2
    /\ assetTypes[Len(assetTypes)].rangeStart = 7001
    /\ assetTypes[Len(assetTypes)].rangeEnd = 8000

\* the sequence without its k-th element
Without(seq, k) == SubSeq(seq, 1, k - 1) \o SubSeq(seq, k + 1, Len(seq))

(* C15: a successful remove-type takes exactly one entry, one carrying the *)
(* target id, out of the registry, the others staying as they were and in  *)
(* their order, and leaves the counter store, in memory and persisted, as  *)
(* it was.                                                                 *)
C15_RemovesOnlyTheTarget ==
    [][ (last'.op = "remove" /\ last'.outcome = "removed")
            => /\ \E k \in 1..Len(assetTypes) :
                      /\ assetTypes[k].id = last'.arg
                      /\ assetTypes' = Without(assetTypes, k)
               /\ lastGeneratedCounters' = lastGeneratedCounters
               /\ localStorage'.counters = localStorage.counters ]_vars

\* the selection, when there is one, is the id of an entry of the registry
SelectionPresent ==
    selectedType # <<>> => \E i \in 1..Len(assetTypes) : assetTypes[i].id = selectedType

(* C16: a successful remove-type of the selected type moves the selection  *)
(* to the id of the first entry left (to no selection when none is left);  *)
(* a remove-type of another type, or a refused one, leaves the selection   *)
(* alone; and in every state the selection, when there is one, is the id   *)
(* of an entry of the registry.                                            *)
C16_SelectionFollowsRemoval ==
    /\ []SelectionPresent
    /\ [][ last'.op = "remove"
               => IF last'.outcome = "removed" /\ selectedType = last'.arg
                  THEN selectedType' = IF assetTypes' = <<>> THEN <<>>
                                                            ELSE assetTypes'[1].id
                  ELSE selectedType' = selectedType ]_vars

\* the selected type has just been removed and the first entry is selected
C16_Witness ==
    /\ last.op = "remove"
    /\ last.outcome = "removed"
    /\ last.sel = last.arg
    /\ selectedType # last.arg
    /\ selectedType = assetTypes[1].id

\* the fields of an asset type that are written to the storage
StoredFields == {"id", "name", "prefix", "iconId", "rangeStart", "rangeEnd", "isDefault"}

\* the item holds the whole registry: one object per entry, in the order of
\* the registry, with the stored fields of the entry and no other
HoldsRegistry(item, types) ==
    /\ item.kind = "json"
    /\ Len(item.value) = Len(types)
    /\ \A i \in 1..Len(types) :
           /\ DOMAIN item.value[i] = StoredFields
           /\ \A f \in StoredFields : item.value[i][f] = types[i][f]

\* the item holds the whole counter store: one [key, value] pair per entry,
\* in the order of the map
HoldsCounters(item, counters) ==
    /\ item.kind = "json"
    /\ Len(item.value) = Len(counters)
    /\ \A i \in 1..Len(counters) :
           /\ item.value[i][1] = counters[i][1]
           /\ item.value[i][2] = counters[i][2]

(* C17: as long as the storage has rejected no write, after every action   *)
(* the persisted registry is the whole registry in memory and the          *)
(* persisted counter store is the whole counter store in memory.           *)
C17_PersistedFollowsMemory ==
    ~localStorage.full
        => /\ HoldsRegistry(localStorage.types, assetTypes)
           /\ HoldsCounters(localStorage.counters, lastGeneratedCounters)

\* numbers were generated under two keys after a change of the registry,
\* every write accepted
C17_Witness ==
    /\ ~localStorage.full
    /\ last.op = "generate"
    /\ last.outcome = "ok"
    /\ Len(lastGeneratedCounters) >= 2
    /\ Len(assetTypes) > Len(defaultAssetTypes)
    /\ Len(localStorage.counters.value) >= 2

\* the item is missing or corrupt: never set, empty, not JSON, or JSON that
\* is no array
Unreadable(kind) == kind \in {"null", "empty", "garbage", "object"}

\* the six protected defaults, by their ids, prefixes and ranges
IsSeededRegistry(types) ==
    /\ Len(types) = 6
    /\ \A i \in 1..6 :
           /\ types[i].isDefault
           /\ types[i].rangeStart = 1000 * (i - 1) + 1
           /\ types[i].rangeEnd = 1000 * i
    /\ [i \in 1..6 |-> types[i].prefix]
           = << <<"L","T">>, <<"P","C">>, <<"K","B">>, <<"M","S">>, <<"P","R">>, <<"S","D">> >>
    /\ types = defaultAssetTypes

(* C18: a load that finds the registry item missing or corrupt starts the  *)
(* session with exactly the six protected defaults, and one that finds the *)
(* counters item missing or corrupt starts it with an empty counter store; *)
(* the session is then in a normal state: the first type is selected, and  *)
(* in all its states the registry is not empty and the selection names an  *)
(* entry, so that select, generate, add and remove find their target.      *)
C18_LoadFallsBack ==
    /\ last.op \in {"load", "reload"}
           => /\ Unreadable(found.types) => IsSeededRegistry(assetTypes)
              /\ Unreadable(found.counters) => lastGeneratedCounters = <<>>
              /\ selectedType = assetTypes[1].id
              /\ generatedNumber = <<>>
    /\ (Unreadable(found.types) \/ Unreadable(found.counters))
           => /\ Len(assetTypes) >= 6
              /\ selectedType # <<>>
              /\ SelectionPresent

\* after a load that found a registry item that is not JSON, a type was
\* added and selected and its first number generated
C18_Witness ==
    /\ found.types = "garbage"
    /\ found.counters = "json"
    /\ Len(assetTypes) = Len(defaultAssetTypes) + 1
    /\ last.op = "generate"
    /\ last.outcome = "ok"
    /\ selectedType = assetTypes[Len(assetTypes)].id
    /\ Len(issued) = 1
    /\ issued[1].seq = 6001

\* the fields of an asset type that a round trip has to preserve
KeptFields == {"id", "name", "prefix", "rangeStart", "rangeEnd", "isDefault"}

\* the rendering handle an icon reference stands for
HandleOf(ref) ==
    CASE ref = "laptop"   -> "Laptop"
      [] ref = "desktop"  -> "Monitor"
      [] ref = "keyboard" -> "Keyboard"
      [] ref = "mouse"    -> "Mouse"
      [] ref = "printer"  -> "Printer"
      [] ref = "server"   -> "Server"
      [] OTHER            -> "HardDrive"

\* back is the registry types with every icon resolved from its reference
SameRegistry(types, back) ==
    /\ Len(back) = Len(types)
    /\ \A i \in 1..Len(types) :
           /\ \A f \in KeptFields : back[i][f] = types[i][f]
           /\ back[i].icon = HandleOf(types[i].iconId)

\* back has the key-value pairs of counters, in their order
SameCounters(counters, back) ==
    /\ Len(back) = Len(counters)
    /\ \A i \in 1..Len(counters) :
           back[i][1] = counters[i][1] /\ back[i][2] = counters[i][2]

\* writing the two values to an empty storage and loading them gives them back
RoundTrips(types, counters) ==
    LET stored == afterEffects(emptyStorage, types, counters)
    IN  /\ SameRegistry(types, loadAssetTypes(stored))
        /\ SameCounters(counters, loadCounters(stored))

(* C19: saving and then loading the registry and the counter store of any  *)
(* reachable state gives back the same entries in the same order, with the *)
(* same id, name, prefix, range and protected flag and each icon resolved  *)
(* from its reference (to the default handle for an unknown reference),    *)
(* and the same counters in the same order; so a reload of the page, when  *)
(* no write was rejected, starts the next session with the registry and    *)
(* the counter store the page had.                                         *)
C19_RoundTrip ==
    /\ [](/\ RoundTrips(assetTypes, lastGeneratedCounters)
          /\ \A ref \in iconIds \cup {"tablet", ""} :
                 getIconComponent(ref) = HandleOf(ref))
    /\ [][ (last'.op = "reload" /\ ~localStorage.full)
               => /\ SameRegistry(assetTypes, assetTypes')
                  /\ SameCounters(lastGeneratedCounters, lastGeneratedCounters') ]_vars

\* the page was reloaded after a type was added and a number generated
C19_Witness ==
    /\ last.op = "reload"
    /\ ~localStorage.full
    /\ found.types = "json"
    /\ found.counters = "json"
    /\ Len(assetTypes) > Len(defaultAssetTypes)
    /\ assetTypes[Len(assetTypes)].icon = "HardDrive"
    /\ Len(lastGeneratedCounters) >= 1

\* the counter of the period key of the selected type, before a generate
SelectedKey == PeriodKey(assetTypes[SelectedIndex].prefix, now)

(* C20: once the storage rejects writes, a change of the counter store or  *)
(* of the registry is kept in memory, the persisted items stay as they     *)
(* were and the only report is the warning of the save effect; a generate  *)
(* continues from the counter in memory, one above the number issued       *)
(* before.                                                                 *)
C20_MemoryAuthoritative ==
    [][ localStorage.full
            => /\ localStorage' = localStorage
               /\ (last'.op = "generate" /\ last'.outcome = "ok")
                      => /\ last'.warnings = <<countersWarning>>
                         /\ generatedNumber' = issued'[Len(issued')].assetNumber
                         /\ SelectedKey \in CounterKeys(lastGeneratedCounters')
                         /\ CounterValue(lastGeneratedCounters', SelectedKey)
                                = issued'[Len(issued')].seq
                         /\ SelectedKey \in CounterKeys(lastGeneratedCounters)
                                => CounterValue(lastGeneratedCounters', SelectedKey)
                                       = CounterValue(lastGeneratedCounters, SelectedKey) + 1
               /\ (last'.op = "add" /\ last'.outcome = "added")
                      => /\ last'.warnings = <<typesWarning>>
                         /\ Len(assetTypes') = Len(assetTypes) + 1
               /\ (last'.op = "remove" /\ last'.outcome = "removed")
                      => /\ last'.warnings = <<typesWarning>>
                         /\ Len(assetTypes') < Len(assetTypes) ]_vars

\* two numbers in a row were generated after the storage began to reject
\* writes: the second continues from the first, which was never persisted
C20_Witness ==
    /\ localStorage.full
    /\ last.op = "generate"
    /\ last.outcome = "ok"
    /\ last.warnings = <<countersWarning>>
    /\ Len(issued) >= 2
    /\ IssuedKey(Len(issued)) = IssuedKey(Len(issued) - 1)
    /\ issued[Len(issued)].seq = issued[Len(issued) - 1].seq + 1
    /\ localStorage.counters.kind = "json"
    /\ IssuedKey(Len(issued)) \notin CounterKeys(localStorage.counters.value)

====
